---- MODULE Spec2Model ----
(***************************************************************************)
(* Subscription ledger, Stripe webhook reconciler and video registry of    *)
(* VideoLibrarySaaS.                                                       *)
(*                                                                         *)
(* The ledger is the "users" table (subscriptionStatus, stripeCustomerId,  *)
(* stripeSubscriptionId per row).  Each route handler is one action.  The  *)
(* variables last, pre, preVideos and replayed are history variables: they *)
(* record the request being answered, its response and the tables before   *)
(* it, so that the contract of a handler can be stated as a state          *)
(* predicate.  Requests are served one at a time: Respond hands the        *)
(* response to the caller and clears the record.                           *)
(***************************************************************************)
EXTENDS Integers, FiniteSets, Sequences, TLC

----------------------------------------------------------------------------
(* Bounds of the model *)

NumUsers == 2
NumSubs == 2
MaxVideos == 2

\* requests that may be in flight at once
MaxInflight == 2

----------------------------------------------------------------------------
(* Identifiers *)

NULL == <<"null", 0>>

UserIds == {<<"user", i>> : i \in 1..NumUsers}

\* a well-formed user id that names no row of the users table
GhostUser == <<"user", 0>>

SubIds == {<<"sub", i>> : i \in 1..NumSubs}

\* the provider keeps one customer per user; a session without a user id
\* belongs to customer 0
CustomerOf(u) == IF u = NULL THEN <<"cus", 0>> ELSE <<"cus", u[2]>>

CustomerIds == {<<"cus", i>> : i \in 0..NumUsers}

\* prisma schema default of a freshly registered user row
NewUser ==
  [role |-> "USER", subscriptionStatus |-> "inactive",
   stripeCustomerId |-> NULL, stripeSubscriptionId |-> NULL]

LedgerStatuses == {"inactive", "active", "past_due"}

----------------------------------------------------------------------------
(* Provider events (the parsed webhook body) *)

\* Stripe.Subscription.status values the provider may report
ProviderStatuses == {"active", "trialing", "past_due", "canceled"}

MkEvent(t, u, c, s, st) ==
  [type |-> t, userId |-> u, customer |-> c, subscription |-> s, status |-> st]

CheckoutEvents ==
  {MkEvent("checkout.session.completed", u, CustomerOf(u), s, "") :
     u \in UserIds \cup {GhostUser, NULL}, s \in SubIds \cup {NULL}}

SubscriptionEvents ==
  {MkEvent(t, NULL, NULL, s, st) :
     t \in {"customer.subscription.created", "customer.subscription.updated"},
     s \in SubIds, st \in ProviderStatuses}

DeletedEvents ==
  {MkEvent("customer.subscription.deleted", NULL, NULL, s, "canceled") :
     s \in SubIds}

InvoiceEvents ==
  {MkEvent(t, NULL, NULL, s, "") :
     t \in {"invoice.payment_succeeded", "invoice.payment_failed"},
     s \in SubIds \cup {NULL}}

\* an event type the switch has no case for
OtherEvents == {MkEvent("customer.created", NULL, NULL, NULL, "")}

Events ==
  CheckoutEvents \cup SubscriptionEvents \cup DeletedEvents
    \cup InvoiceEvents \cup OtherEvents

RecognizedTypes ==
  {"checkout.session.completed", "customer.subscription.created",
   "customer.subscription.updated", "customer.subscription.deleted",
   "invoice.payment_succeeded", "invoice.payment_failed"}

----------------------------------------------------------------------------
(* Signature header *)

webhookSecret == "whsec_server"

ForgedKey == "whsec_guess"

\* the provider's MAC of a body under a key
Sign(body, key) == [kind |-> "sig", body |-> body, key |-> key]

NoBody == MkEvent("", NULL, NULL, NULL, "")

\* req.headers.get('stripe-signature') is null
NoHeader == [kind |-> "absent", body |-> NoBody, key |-> ""]

\* the header is present and empty
EmptyHeader == [kind |-> "empty", body |-> NoBody, key |-> ""]

\* a different body, whose genuine signature an attacker replays
OtherBody(body) ==
  IF body.type = "customer.created"
    THEN MkEvent("customer.updated", NULL, NULL, NULL, "")
    ELSE MkEvent("customer.created", NULL, NULL, NULL, "")

Headers(body) ==
  {NoHeader, EmptyHeader, Sign(body, ForgedKey),
   Sign(OtherBody(body), webhookSecret), Sign(body, webhookSecret)}

\* route.ts:16  if (!signature)
HasSignature(header) == header.kind = "sig"

\* variant: the MAC is compared without the endpoint secret
constructEventOk_AnyKey(body, header, secret) ==
  header.kind = "sig" /\ header.body = body

\* stripe.webhooks.constructEvent: throws unless the header is the MAC of
\* this very body under the endpoint secret
constructEventOk(body, header, secret) == header = Sign(body, secret)

----------------------------------------------------------------------------
VARIABLES
  users,        \* the users table: id -> row
  videos,       \* the videos table: a set of rows
  nextVideoId,  \* the next generated primary key of a video row
  last,         \* history: the last request and its response
  pre,          \* history: the users table before the last request
  preVideos,    \* history: the videos table before the last request
  replayed,     \* history: the last two requests were the same acknowledged event
  stack,        \* the deployed variant of the data layer: "prisma" or "supabase"
  inflight,     \* the requests being handled: slot -> request and position
  applied       \* history: an event applied earlier, for a later retry

vars ==
  <<users, videos, nextVideoId, last, pre, preVideos, replayed, stack,
    inflight, applied>>

----------------------------------------------------------------------------
(* Data-store writes of the webhook handler.  A write returns               *)
(* [threw, rows]: the promise rejects (threw) when the store is unavailable  *)
(* (dbFault), and prisma.user.update also rejects when no row has the id.    *)

\* variant: the update omits stripeSubscriptionId
userUpdate_DropsSubscription(rows, id, customer, subscription, dbFault) ==
  IF dbFault \/ id \notin DOMAIN rows
    THEN [threw |-> TRUE, rows |-> rows]
    ELSE [threw |-> FALSE,
          rows |-> [rows EXCEPT ![id] =
                      [@ EXCEPT !.stripeCustomerId = customer,
                                !.subscriptionStatus = "active"]]]

\* prisma.user.update({ where: { id }, data: { stripeCustomerId,
\*   stripeSubscriptionId, subscriptionStatus: 'active' } })
userUpdate(rows, id, customer, subscription, dbFault) ==
  IF dbFault \/ id \notin DOMAIN rows
    THEN [threw |-> TRUE, rows |-> rows]
    ELSE [threw |-> FALSE,
          rows |-> [rows EXCEPT ![id] =
                      [@ EXCEPT !.stripeCustomerId = customer,
                                !.stripeSubscriptionId = subscription,
                                !.subscriptionStatus = "active"]]]

\* variant: a second past_due on a past_due row escalates to inactive
userUpdateMany_Escalates(rows, subscriptionId, status, dbFault) ==
  IF dbFault
    THEN [threw |-> TRUE, rows |-> rows]
    ELSE [threw |-> FALSE,
          rows |-> [u \in DOMAIN rows |->
                      IF rows[u].stripeSubscriptionId = subscriptionId
                        THEN [rows[u] EXCEPT !.subscriptionStatus =
                                IF status = "past_due"
                                     /\ rows[u].subscriptionStatus = "past_due"
                                  THEN "inactive" ELSE status]
                        ELSE rows[u]]]

\* prisma.user.updateMany({ where: { stripeSubscriptionId },
\*   data: { subscriptionStatus } }): zero matches is not an error
userUpdateMany(rows, subscriptionId, status, dbFault) ==
  IF dbFault
    THEN [threw |-> TRUE, rows |-> rows]
    ELSE [threw |-> FALSE,
          rows |-> [u \in DOMAIN rows |->
                      IF rows[u].stripeSubscriptionId = subscriptionId
                        THEN [rows[u] EXCEPT !.subscriptionStatus = status]
                        ELSE rows[u]]]

NoWrite(rows) == [threw |-> FALSE, rows |-> rows]

\* variant: a provider status that is also a ledger status is copied through
MapProviderStatus_PassThrough(status) ==
  IF status \in {"active", "past_due"} THEN status ELSE "inactive"

\* route.ts:59
MapProviderStatus(status) == IF status = "active" THEN "active" ELSE "inactive"

\* variant: a past_due account is linked but stays past_due
caseCheckoutCompleted_KeepsPastDue(rows, event, dbFault) ==
  IF event.userId # NULL /\ event.subscription # NULL
    THEN LET r == userUpdate(rows, event.userId, event.customer,
                             event.subscription, dbFault)
         IN  IF ~r.threw /\ rows[event.userId].subscriptionStatus = "past_due"
               THEN [r EXCEPT !.rows[event.userId].subscriptionStatus =
                                "past_due"]
               ELSE r
    ELSE NoWrite(rows)

\* case 'checkout.session.completed', route.ts:38-53
caseCheckoutCompleted(rows, event, dbFault) ==
  IF event.userId # NULL /\ event.subscription # NULL
    THEN userUpdate(rows, event.userId, event.customer, event.subscription,
                    dbFault)
    ELSE NoWrite(rows)

\* variant: the update has no where clause
caseSubscriptionChanged_AllAccounts(rows, event, dbFault) ==
  IF dbFault
    THEN [threw |-> TRUE, rows |-> rows]
    ELSE [threw |-> FALSE,
          rows |-> [u \in DOMAIN rows |->
                      [rows[u] EXCEPT !.subscriptionStatus =
                                        MapProviderStatus(event.status)]]]

\* case 'customer.subscription.created' / 'updated', route.ts:55-68
caseSubscriptionChanged(rows, event, dbFault) ==
  userUpdateMany(rows, event.subscription, MapProviderStatus(event.status),
                 dbFault)

\* variant: the where clause also requires the row to be active
caseSubscriptionDeleted_OnlyActive(rows, event, dbFault) ==
  IF dbFault
    THEN [threw |-> TRUE, rows |-> rows]
    ELSE [threw |-> FALSE,
          rows |-> [u \in DOMAIN rows |->
                      IF rows[u].stripeSubscriptionId = event.subscription
                           /\ rows[u].subscriptionStatus = "active"
                        THEN [rows[u] EXCEPT !.subscriptionStatus = "inactive"]
                        ELSE rows[u]]]

\* case 'customer.subscription.deleted', route.ts:70-80
caseSubscriptionDeleted(rows, event, dbFault) ==
  userUpdateMany(rows, event.subscription, "inactive", dbFault)

\* variant: the where clause also requires the row to be inactive
casePaymentSucceeded_OnlyInactive(rows, event, dbFault) ==
  IF event.subscription = NULL
    THEN NoWrite(rows)
  ELSE IF dbFault
    THEN [threw |-> TRUE, rows |-> rows]
    ELSE [threw |-> FALSE,
          rows |-> [u \in DOMAIN rows |->
                      IF rows[u].stripeSubscriptionId = event.subscription
                           /\ rows[u].subscriptionStatus = "inactive"
                        THEN [rows[u] EXCEPT !.subscriptionStatus = "active"]
                        ELSE rows[u]]]

\* case 'invoice.payment_succeeded', route.ts:82-97
casePaymentSucceeded(rows, event, dbFault) ==
  IF event.subscription # NULL
    THEN userUpdateMany(rows, event.subscription, "active", dbFault)
    ELSE NoWrite(rows)

\* variant: the invoice's subscription is not tested before the update
casePaymentFailed_NoGuard(rows, event, dbFault) ==
  userUpdateMany(rows, event.subscription, "past_due", dbFault)

\* case 'invoice.payment_failed', route.ts:99-114
casePaymentFailed(rows, event, dbFault) ==
  IF event.subscription # NULL
    THEN userUpdateMany(rows, event.subscription, "past_due", dbFault)
    ELSE NoWrite(rows)

\* variant: the default case throws instead of logging
HandleEvent_DefaultThrows(rows, event, dbFault) ==
  CASE event.type = "checkout.session.completed" ->
         caseCheckoutCompleted(rows, event, dbFault)
    [] event.type \in {"customer.subscription.created",
                       "customer.subscription.updated"} ->
         caseSubscriptionChanged(rows, event, dbFault)
    [] event.type = "customer.subscription.deleted" ->
         caseSubscriptionDeleted(rows, event, dbFault)
    [] event.type = "invoice.payment_succeeded" ->
         casePaymentSucceeded(rows, event, dbFault)
    [] event.type = "invoice.payment_failed" ->
         casePaymentFailed(rows, event, dbFault)
    [] OTHER -> [threw |-> TRUE, rows |-> rows]

\* the switch on event.type, route.ts:37-119
HandleEvent(rows, event, dbFault) ==
  CASE event.type = "checkout.session.completed" ->
         caseCheckoutCompleted(rows, event, dbFault)
    [] event.type \in {"customer.subscription.created",
                       "customer.subscription.updated"} ->
         caseSubscriptionChanged(rows, event, dbFault)
    [] event.type = "customer.subscription.deleted" ->
         caseSubscriptionDeleted(rows, event, dbFault)
    [] event.type = "invoice.payment_succeeded" ->
         casePaymentSucceeded(rows, event, dbFault)
    [] event.type = "invoice.payment_failed" ->
         casePaymentFailed(rows, event, dbFault)
    [] OTHER -> NoWrite(rows)

\* whether the handler issues a write for this event
IssuesWrite(event) ==
  CASE event.type = "checkout.session.completed" ->
         event.userId # NULL /\ event.subscription # NULL
    [] event.type \in {"invoice.payment_succeeded", "invoice.payment_failed"} ->
         event.subscription # NULL
    [] event.type \in RecognizedTypes -> TRUE
    [] OTHER -> FALSE

\* variant: the outer catch acknowledges the event
WebhookResult_Swallows(rows, body, header, dbFault) ==
  IF ~HasSignature(header)
    THEN [status |-> 400, msg |-> "Missing stripe-signature header",
          rows |-> rows]
  ELSE IF ~constructEventOk(body, header, webhookSecret)
    THEN [status |-> 400, msg |-> "Webhook signature verification failed",
          rows |-> rows]
  ELSE [status |-> 200, msg |-> "received",
        rows |-> HandleEvent(rows, body, dbFault).rows]

\* the response and the ledger the webhook POST leaves, route.ts:11-129
WebhookResult(rows, body, header, dbFault) ==
  IF ~HasSignature(header)
    THEN [status |-> 400, msg |-> "Missing stripe-signature header",
          rows |-> rows]
  ELSE IF ~constructEventOk(body, header, webhookSecret)
    THEN [status |-> 400, msg |-> "Webhook signature verification failed",
          rows |-> rows]
  ELSE LET r == HandleEvent(rows, body, dbFault)
       IN  IF r.threw
             THEN [status |-> 500, msg |-> "Webhook processing failed",
                   rows |-> r.rows]
             ELSE [status |-> 200, msg |-> "received", rows |-> r.rows]

----------------------------------------------------------------------------
(* Video registry (videos/route.ts, NextAuth + prisma handlers).  A URL is   *)
(* the sequence of its lexical pieces: scheme, "www." prefix, host and then  *)
(* the pieces of the path.                                                   *)

WordChars == {"a", "b", "-", "_"}

UrlWatch == <<"https://", "www.", "youtube.com", "/", "watch?v=", "a">>

UrlVimeo == <<"https://", "", "vimeo.com", "/", "a">>

\* the body carries no youtube_url (or an empty one)
UrlMissing == <<>>

Urls == {UrlWatch, UrlVimeo}

\* variant: the scheme group accepts any scheme
Pattern1_AnyScheme(url) ==
  /\ Len(url) >= 5
  /\ url[2] \in {"", "www."}
  /\ url[3] \in {"youtube.com", "youtu.be"}
  /\ url[4] = "/"
  /\ \A i \in 5..Len(url) : url[i] # "\n"

\* /^(https?:\/\/)?(www\.)?(youtube\.com|youtu\.be)\/.+$/
Pattern1(url) ==
  /\ Len(url) >= 5
  /\ url[1] \in {"", "http://", "https://"}
  /\ url[2] \in {"", "www."}
  /\ url[3] \in {"youtube.com", "youtu.be"}
  /\ url[4] = "/"
  /\ \A i \in 5..Len(url) : url[i] # "\n"

\* /^https?:\/\/(www\.)?youtube\.com\/watch\?v=[\w-]+/
Pattern2(url) ==
  /\ Len(url) >= 6
  /\ url[1] \in {"http://", "https://"}
  /\ url[2] \in {"", "www."}
  /\ url[3] = "youtube.com"
  /\ url[4] = "/"
  /\ url[5] = "watch?v="
  /\ url[6] \in WordChars

\* /^https?:\/\/(www\.)?youtu\.be\/[\w-]+/
Pattern3(url) ==
  /\ Len(url) >= 5
  /\ url[1] \in {"http://", "https://"}
  /\ url[2] \in {"", "www."}
  /\ url[3] = "youtu.be"
  /\ url[4] = "/"
  /\ url[5] \in WordChars

validateYouTubeUrl(url) == Pattern1(url) \/ Pattern2(url) \/ Pattern3(url)

\* variant: the subscription check refuses only inactive accounts
VideoPostResult_GateInactive(rows, vids, id, session, url, dbFault) ==
  IF session = NULL
    THEN [status |-> 401, msg |-> "Unauthorized", videos |-> vids]
  ELSE IF dbFault
    THEN [status |-> 500, msg |-> "Failed to add video", videos |-> vids]
  ELSE IF session \notin DOMAIN rows
            \/ rows[session].subscriptionStatus = "inactive"
    THEN [status |-> 403, msg |-> "Active subscription required",
          videos |-> vids]
  ELSE IF url = UrlMissing
    THEN [status |-> 400, msg |-> "YouTube URL is required", videos |-> vids]
  ELSE IF ~validateYouTubeUrl(url)
    THEN [status |-> 400, msg |-> "Invalid YouTube URL", videos |-> vids]
  ELSE IF \E v \in vids : v.youtubeUrl = url /\ v.userId = session
    THEN [status |-> 400, msg |-> "Video already exists", videos |-> vids]
  ELSE [status |-> 200, msg |-> "video",
        videos |-> vids \cup
                     {[id |-> id, userId |-> session, youtubeUrl |-> url]}]

\* the response and the videos table the video POST leaves, route.ts:49-105
VideoPostResult(rows, vids, id, session, url, dbFault) ==
  IF session = NULL
    THEN [status |-> 401, msg |-> "Unauthorized", videos |-> vids]
  ELSE IF dbFault
    THEN [status |-> 500, msg |-> "Failed to add video", videos |-> vids]
  ELSE IF session \notin DOMAIN rows
            \/ rows[session].subscriptionStatus # "active"
    THEN [status |-> 403, msg |-> "Active subscription required",
          videos |-> vids]
  ELSE IF url = UrlMissing
    THEN [status |-> 400, msg |-> "YouTube URL is required", videos |-> vids]
  ELSE IF ~validateYouTubeUrl(url)
    THEN [status |-> 400, msg |-> "Invalid YouTube URL", videos |-> vids]
  ELSE IF \E v \in vids : v.youtubeUrl = url /\ v.userId = session
    THEN [status |-> 400, msg |-> "Video already exists", videos |-> vids]
  ELSE [status |-> 200, msg |-> "video",
        videos |-> vids \cup
                     {[id |-> id, userId |-> session, youtubeUrl |-> url]}]

----------------------------------------------------------------------------
(* Actions *)

NoRequest == [kind |-> "none"]

Procs == 1..MaxInflight

\* no request is being handled
NoneInflight == [p \in Procs |-> NoRequest]

\* no event is remembered for a retry
NoApplied == [body |-> NoBody, phase |-> "none", matched |-> FALSE]

Idle == last = NoRequest

TypeOK ==
  /\ DOMAIN users = UserIds
  /\ \A u \in UserIds :
       /\ users[u].subscriptionStatus \in LedgerStatuses
       /\ users[u].stripeCustomerId \in CustomerIds \cup {NULL}
       /\ users[u].stripeSubscriptionId \in SubIds \cup {NULL}

Init ==
  /\ users = [u \in UserIds |-> NewUser]
  /\ videos = {}
  /\ nextVideoId = 1
  /\ last = NoRequest
  /\ pre = users
  /\ preVideos = {}
  /\ replayed = FALSE
  /\ inflight = NoneInflight
  /\ applied = NoApplied
  /\ stack = "prisma"

\* POST /api/webhooks/stripe
WebhookPOST(body, header, dbFault) ==
  LET r == WebhookResult(users, body, header, dbFault)
  IN  /\ users' = r.rows
      /\ pre' = users
      /\ preVideos' = videos
      /\ last' = [kind |-> "webhook", body |-> body, header |-> header,
                  dbFault |-> dbFault, status |-> r.status, msg |-> r.msg]
      /\ replayed' = /\ last.kind = "webhook"
                     /\ last.status = 200
                     /\ r.status = 200
                     /\ last.body = body
      /\ UNCHANGED <<videos, nextVideoId, stack, inflight>>

\* the store is consulted only once the signature has been verified
Faults(body, header) ==
  IF constructEventOk(body, header, webhookSecret) THEN BOOLEAN ELSE {FALSE}

Webhook ==
  /\ Idle
  /\ \E body \in Events : \E header \in Headers(body) :
       \E dbFault \in Faults(body, header) :
         WebhookPOST(body, header, dbFault)
  /\ UNCHANGED applied

\* the provider delivers the event it has just delivered once more
Redeliver ==
  /\ last.kind = "webhook"
  /\ ~replayed
  /\ \E dbFault \in Faults(last.body, last.header) :
       WebhookPOST(last.body, last.header, dbFault)
  /\ UNCHANGED applied

\* the response reaches the caller; the request record is dropped
Respond ==
  /\ ~Idle
  /\ last' = NoRequest
  /\ pre' = users
  /\ preVideos' = videos
  /\ replayed' = FALSE
  /\ UNCHANGED <<users, videos, nextVideoId, stack, inflight, applied>>

\* a provider delivery: the body signed with the endpoint secret
Delivery ==
  /\ Idle
  /\ \E body \in Events : WebhookPOST(body, Sign(body, webhookSecret), FALSE)
  /\ UNCHANGED applied

\* POST /api/videos
VideoPOST(session, url, dbFault) ==
  LET r == VideoPostResult(users, videos, nextVideoId, session, url, dbFault)
  IN  /\ r.status = 200 => nextVideoId <= MaxVideos
      /\ videos' = r.videos
      /\ nextVideoId' = IF r.status = 200 THEN nextVideoId + 1 ELSE nextVideoId
      /\ pre' = users
      /\ preVideos' = videos
      /\ last' = [kind |-> "videoPOST", session |-> session, url |-> url,
                  dbFault |-> dbFault, status |-> r.status, msg |-> r.msg]
      /\ replayed' = FALSE
      /\ UNCHANGED <<users, stack, inflight, applied>>

VideoInsert ==
  /\ Idle
  /\ \E session \in UserIds \cup {GhostUser, NULL} :
       \E url \in Urls \cup {UrlMissing} : \E dbFault \in BOOLEAN :
         VideoPOST(session, url, dbFault)

Next == Webhook \/ Redeliver \/ Respond

Spec == Init /\ [][Next]_vars

\* the registry together with the provider's deliveries
NextRegistry == Delivery \/ VideoInsert \/ Respond

SpecRegistry == Init /\ [][NextRegistry]_vars

----------------------------------------------------------------------------
(* The video endpoints in both variants of videos/route.ts: the NextAuth +   *)
(* prisma handlers (route.ts:16-146) over the tables of setup-db, and the    *)
(* Supabase handlers (route.ts:160-322) over the tables of                   *)
(* SETUP_DATABASE.sql.  Both read the same account columns.                  *)

Stacks == {"prisma", "supabase"}

\* youtu.be/b: no scheme, matched by the first pattern only
UrlBare == <<"", "", "youtu.be", "/", "b">>

UrlFtp == <<"ftp://", "", "youtube.com", "/", "a">>

\* https://youtube.com/ : nothing after the slash
UrlNoPath == <<"https://", "", "youtube.com", "/">>

\* a watch URL followed by a line break: matched by the second pattern only
UrlNewline ==
  <<"https://", "www.", "youtube.com", "/", "watch?v=", "a", "\n">>

AllUrls == {UrlWatch, UrlBare, UrlNewline, UrlVimeo, UrlFtp, UrlNoPath}

Sessions == UserIds \cup {GhostUser, NULL}

\* the id query parameter: 0 stands for a request without one
VideoIdParams == 0..MaxVideos

OwnVideos(vids, uid) == {v \in vids : v.userId = uid}

\* GET, route.ts:16-47
VideoGetResult(rows, vids, session, dbFault) ==
  IF session = NULL
    THEN [status |-> 401, msg |-> "Unauthorized", rows |-> {}]
  ELSE IF dbFault
    THEN [status |-> 500, msg |-> "Failed to fetch videos", rows |-> {}]
  ELSE IF session \notin DOMAIN rows
            \/ rows[session].subscriptionStatus # "active"
    THEN [status |-> 403, msg |-> "Active subscription required", rows |-> {}]
  ELSE [status |-> 200, msg |-> "videos", rows |-> OwnVideos(vids, session)]

\* DELETE, route.ts:107-146
VideoDeleteResult(vids, session, videoId, dbFault) ==
  IF session = NULL
    THEN [status |-> 401, msg |-> "Unauthorized", videos |-> vids]
  ELSE IF videoId = 0
    THEN [status |-> 400, msg |-> "Video ID is required", videos |-> vids]
  ELSE IF dbFault
    THEN [status |-> 500, msg |-> "Failed to delete video", videos |-> vids]
  ELSE IF ~\E v \in vids : v.id = videoId /\ v.userId = session
    THEN [status |-> 404, msg |-> "Video not found", videos |-> vids]
  ELSE [status |-> 200, msg |-> "success",
        videos |-> {v \in vids : v.id # videoId}]

\* Supabase GET, route.ts:160-194: no subscription check
SbVideoGetResult(vids, session) ==
  IF session = NULL
    THEN [status |-> 401, msg |-> "Unauthorized", rows |-> {}]
    ELSE [status |-> 200, msg |-> "videos", rows |-> OwnVideos(vids, session)]

\* youtube_url text UNIQUE NOT NULL, SETUP_DATABASE.sql:24: the insert is
\* refused when a row already has the url
SbInsert(vids, row) ==
  IF \E v \in vids : v.youtubeUrl = row.youtubeUrl
    THEN [error |-> TRUE, videos |-> vids]
    ELSE [error |-> FALSE, videos |-> vids \cup {row}]

\* variant: only a missing profile is refused
SbVideoPostResult_GateMissing(rows, vids, id, session, url) ==
  IF session = NULL
    THEN [status |-> 401, msg |-> "Unauthorized", videos |-> vids]
  ELSE IF session \notin DOMAIN rows
    THEN [status |-> 403, msg |-> "Active subscription required",
          videos |-> vids]
  ELSE IF url = UrlMissing
    THEN [status |-> 400, msg |-> "YouTube URL is required", videos |-> vids]
  ELSE IF ~validateYouTubeUrl(url)
    THEN [status |-> 400, msg |-> "Invalid YouTube URL", videos |-> vids]
  ELSE IF \E v \in vids : v.youtubeUrl = url
    THEN [status |-> 409, msg |-> "This video URL has already been added",
          videos |-> vids]
  ELSE LET ins == SbInsert(vids, [id |-> id, userId |-> session,
                                  youtubeUrl |-> url])
       IN  IF ins.error
             THEN [status |-> 500, msg |-> "Failed to add video",
                   videos |-> vids]
             ELSE [status |-> 201, msg |-> "video", videos |-> ins.videos]

\* Supabase POST, route.ts:196-276
SbVideoPostResult(rows, vids, id, session, url) ==
  IF session = NULL
    THEN [status |-> 401, msg |-> "Unauthorized", videos |-> vids]
  ELSE IF session \notin DOMAIN rows
            \/ rows[session].subscriptionStatus # "active"
    THEN [status |-> 403, msg |-> "Active subscription required",
          videos |-> vids]
  ELSE IF url = UrlMissing
    THEN [status |-> 400, msg |-> "YouTube URL is required", videos |-> vids]
  ELSE IF ~validateYouTubeUrl(url)
    THEN [status |-> 400, msg |-> "Invalid YouTube URL", videos |-> vids]
  ELSE IF \E v \in vids : v.youtubeUrl = url
    THEN [status |-> 409, msg |-> "This video URL has already been added",
          videos |-> vids]
  ELSE LET ins == SbInsert(vids, [id |-> id, userId |-> session,
                                  youtubeUrl |-> url])
       IN  IF ins.error
             THEN [status |-> 500, msg |-> "Failed to add video",
                   videos |-> vids]
             ELSE [status |-> 201, msg |-> "video", videos |-> ins.videos]

\* Supabase DELETE, route.ts:278-322: deleting no row is not an error
SbVideoDeleteResult(vids, session, videoId) ==
  IF session = NULL
    THEN [status |-> 401, msg |-> "Unauthorized", videos |-> vids]
  ELSE IF videoId = 0
    THEN [status |-> 400, msg |-> "Video ID is required", videos |-> vids]
  ELSE [status |-> 200, msg |-> "success",
        videos |-> {v \in vids : ~(v.id = videoId /\ v.userId = session)}]

\* the video POST of the deployed variant
PostResult(session, url, dbFault) ==
  IF stack = "prisma"
    THEN VideoPostResult(users, videos, nextVideoId, session, url, dbFault)
    ELSE SbVideoPostResult(users, videos, nextVideoId, session, url)

GetResult(session, dbFault) ==
  IF stack = "prisma"
    THEN VideoGetResult(users, videos, session, dbFault)
    ELSE SbVideoGetResult(videos, session)

DeleteResult(session, videoId, dbFault) ==
  IF stack = "prisma"
    THEN VideoDeleteResult(videos, session, videoId, dbFault)
    ELSE SbVideoDeleteResult(videos, session, videoId)

\* only the prisma handlers surface a store failure as an exception
StoreFaults == IF stack = "prisma" THEN BOOLEAN ELSE {FALSE}

Created(status) == status \in {200, 201}

\* POST /api/videos with a URL and a store behaviour of the given sets
PostVideoOf(urls, faults) ==
  /\ Idle
  /\ \E session \in Sessions : \E url \in urls : \E dbFault \in faults :
         LET r == PostResult(session, url, dbFault)
         IN  /\ Created(r.status) => nextVideoId <= MaxVideos
             /\ videos' = r.videos
             /\ nextVideoId' =
                  IF Created(r.status) THEN nextVideoId + 1 ELSE nextVideoId
             /\ last' = [kind |-> "videoPOST", session |-> session,
                         url |-> url, dbFault |-> dbFault,
                         status |-> r.status, msg |-> r.msg]
  /\ pre' = users
  /\ preVideos' = videos
  /\ replayed' = FALSE
  /\ UNCHANGED <<users, stack, inflight, applied>>

PostVideo == PostVideoOf(AllUrls \cup {UrlMissing}, StoreFaults)

\* GET /api/videos with a store behaviour of the given set
GetVideosOf(faults) ==
  /\ Idle
  /\ \E session \in Sessions : \E dbFault \in faults :
       LET r == GetResult(session, dbFault)
       IN  last' = [kind |-> "videoGET", session |-> session,
                    dbFault |-> dbFault, status |-> r.status, msg |-> r.msg,
                    rows |-> r.rows]
  /\ pre' = users
  /\ preVideos' = videos
  /\ replayed' = FALSE
  /\ UNCHANGED <<users, videos, nextVideoId, stack, inflight, applied>>

GetVideos == GetVideosOf(StoreFaults)

\* DELETE /api/videos?id=
DeleteVideo ==
  /\ Idle
  /\ \E session \in Sessions : \E videoId \in VideoIdParams :
       \E dbFault \in StoreFaults :
         LET r == DeleteResult(session, videoId, dbFault)
         IN  /\ videos' = r.videos
             /\ last' = [kind |-> "videoDELETE", session |-> session,
                         videoId |-> videoId, dbFault |-> dbFault,
                         status |-> r.status, msg |-> r.msg]
  /\ pre' = users
  /\ preVideos' = videos
  /\ replayed' = FALSE
  /\ UNCHANGED <<users, nextVideoId, stack, inflight, applied>>

\* the subscription the provider opened for a user
SubOf(u) == <<"sub", ((u[2] - 1) % NumSubs) + 1>>

\* an account after checkout, in a given ledger status
Subscribed(u, status) ==
  [NewUser EXCEPT !.subscriptionStatus = status,
                  !.stripeCustomerId = CustomerOf(u),
                  !.stripeSubscriptionId = SubOf(u)]

\* ledgers left by earlier provider events: every account is new, active or
\* past_due
Ledgers ==
  {l \in [UserIds -> {"inactive", "active", "past_due"}] : TRUE}

InitVideos ==
  /\ stack \in Stacks
  /\ \E l \in Ledgers :
       users = [u \in UserIds |->
                  IF l[u] = "inactive" THEN NewUser ELSE Subscribed(u, l[u])]
  /\ videos = {}
  /\ nextVideoId = 1
  /\ last = NoRequest
  /\ pre = users
  /\ preVideos = {}
  /\ replayed = FALSE
  /\ inflight = NoneInflight
  /\ applied = NoApplied

NextVideos == PostVideo \/ GetVideos \/ DeleteVideo \/ Respond

SpecVideos == InitVideos /\ [][NextVideos]_vars

----------------------------------------------------------------------------
(* The accounts table: registration, seed, reads, and row-level security *)

Emails == {"admin@example.com", "user@example.com", "new@example.com"}

NoEmail == ""

\* role names: 'USER' / 'ADMIN' in the prisma table, 'user' / 'admin' in
\* the profiles table
UserRole == IF stack = "prisma" THEN "USER" ELSE "user"

AdminRole == IF stack = "prisma" THEN "ADMIN" ELSE "admin"

\* a fresh row: column defaults of the table plus the given email and role
Account(email, role) == [email |-> email] @@ [NewUser EXCEPT !.role = role]

FreeIds(rows) == UserIds \ DOMAIN rows

\* the generated primary key of the next row
NextId(rows) ==
  CHOOSE u \in FreeIds(rows) : \A w \in FreeIds(rows) : u[2] <= w[2]

\* findUnique({ where: { email } })
ByEmail(rows, email) == {u \in DOMAIN rows : rows[u].email = email}

\* prisma.user.create
Create(rows, email, role) == (NextId(rows) :> Account(email, role)) @@ rows

\* POST /api/auth/register
RegisterResult(rows, email, password, dbFault) ==
  IF email = NoEmail \/ ~password
    THEN [status |-> 400, msg |-> "Email and password are required",
          rows |-> rows]
  ELSE IF dbFault
    THEN [status |-> 500, msg |-> "Internal server error", rows |-> rows]
  ELSE IF ByEmail(rows, email) # {}
    THEN [status |-> 400, msg |-> "User already exists with this email",
          rows |-> rows]
  ELSE [status |-> 200, msg |-> "User created successfully",
        rows |-> Create(rows, email, "USER")]

\* prisma.user.upsert({ where: { email }, update: {}, create: {...} })
Upsert(rows, email, role) ==
  IF ByEmail(rows, email) # {} THEN rows ELSE Create(rows, email, role)

\* the emails the seed has to create
SeedMissing(rows) ==
  {e \in {"admin@example.com", "user@example.com"} : ByEmail(rows, e) = {}}

\* POST /api/seed-db; failedAt is the statement at which the store fails
\* (0: none)
SeedResult(rows, failedAt) ==
  IF failedAt = 1
    THEN [status |-> 500, msg |-> "Database seeding failed", rows |-> rows]
  ELSE LET one == Upsert(rows, "admin@example.com", "ADMIN")
       IN  IF failedAt = 2
             THEN [status |-> 500, msg |-> "Database seeding failed",
                   rows |-> one]
             ELSE [status |-> 200, msg |-> "Database seeded successfully",
                   rows |-> Upsert(one, "user@example.com", "USER")]

\* messages of the exception a failed store call throws
Details == {"Can't reach database server", "relation \"User\" does not exist"}

\* a response body without an error field
NoDetail == ""

\* the error field of the seed response, seed-db/route.ts:46-57
SeedError(failedAt, detail) ==
  IF failedAt = 0 THEN NoDetail ELSE detail

\* the error field of the register response, part_002:72-78
RegisterError(status, development, detail) ==
  IF status # 500 THEN NoDetail
  ELSE IF development THEN detail
  ELSE "Database connection failed"

\* POST /api/auth/check-user
CheckUserResult(rows, email, dbFault) ==
  IF email = NoEmail
    THEN [status |-> 400, msg |-> "Email is required", exists |-> FALSE]
  ELSE IF dbFault
    THEN [status |-> 500, msg |-> "Internal server error", exists |-> FALSE]
  ELSE [status |-> 200, msg |-> "exists",
        exists |-> ByEmail(rows, email) # {}]

NoSubscription ==
  [subscriptionStatus |-> "", stripeCustomerId |-> NULL,
   stripeSubscriptionId |-> NULL]

\* GET of the caller's subscription fields
SubscriptionReadResult(rows, session, dbFault) ==
  IF session = NULL
    THEN [status |-> 401, msg |-> "Unauthorized", body |-> NoSubscription]
  ELSE IF dbFault
    THEN [status |-> 500, msg |-> "Internal server error",
          body |-> NoSubscription]
  ELSE IF session \notin DOMAIN rows
    THEN [status |-> 404, msg |-> "User not found", body |-> NoSubscription]
  ELSE [status |-> 200, msg |-> "subscription",
        body |-> [subscriptionStatus |-> rows[session].subscriptionStatus,
                  stripeCustomerId |-> rows[session].stripeCustomerId,
                  stripeSubscriptionId |->
                    rows[session].stripeSubscriptionId]]

\* GET /api/admin/users: the role is read from the caller's row on the
\* server; the role the client believes it has is not consulted
AdminListResult(rows, session, claimedRole) ==
  IF session = NULL
    THEN [status |-> 401, msg |-> "Unauthorized", rows |-> {}]
  ELSE IF session \notin DOMAIN rows \/ rows[session].role # "ADMIN"
    THEN [status |-> 403, msg |-> "Forbidden", rows |-> {}]
  ELSE [status |-> 200, msg |-> "users", rows |-> DOMAIN rows]

\* variant: the admin policy lets every authenticated role see all rows
RlsSelectProfiles_AnyRole(rows, uid) ==
  {u \in DOMAIN rows : u = uid \/ uid \in DOMAIN rows}

\* policies "Users can view own profile" and "Admins can view all profiles":
\* the rows of profiles a SELECT by auth.uid() = uid returns
RlsSelectProfiles(rows, uid) ==
  {u \in DOMAIN rows :
     \/ u = uid
     \/ \E a \in DOMAIN rows : a = uid /\ rows[a].role = "admin"}

\* select * from profiles, issued with the caller's token; the database
\* either applies the policies or rejects the statement
ProfileSelectResult(rows, uid, rejected) ==
  IF uid = NULL
    THEN [status |-> 200, msg |-> "rows", rows |-> {}]
  ELSE IF rejected
    THEN [status |-> 500, msg |-> "policy error", rows |-> {}]
  ELSE [status |-> 200, msg |-> "rows", rows |-> RlsSelectProfiles(rows, uid)]

\* variant: the WITH CHECK clause without its role conjunct
RlsUpdateCheck_NoRole(rows, uid, new) ==
  new.subscriptionStatus = rows[uid].subscriptionStatus

\* WITH CHECK of "Users can update own profile": the new row keeps the
\* role and the subscription_status the caller's row has
RlsUpdateCheck(rows, uid, new) ==
  /\ new.role = rows[uid].role
  /\ new.subscriptionStatus = rows[uid].subscriptionStatus

Columns ==
  {"role", "subscriptionStatus", "stripeCustomerId", "stripeSubscriptionId"}

\* the values a caller sends for a column
ValuesOf(column) ==
  CASE column = "role" -> {"user", "admin"}
    [] column = "subscriptionStatus" -> {"inactive", "active"}
    [] column = "stripeCustomerId" -> {CustomerOf(<<"user", 1>>)}
    [] column = "stripeSubscriptionId" -> {<<"sub", 1>>}

\* update profiles set column = value where id = target, issued with the
\* caller's token
ProfileUpdateResult(rows, uid, target, column, value, rejected) ==
  IF uid = NULL
    THEN [status |-> 200, msg |-> "0 rows", rows |-> rows]
  ELSE IF rejected
    THEN [status |-> 500, msg |-> "policy error", rows |-> rows]
  ELSE IF target # uid \/ uid \notin DOMAIN rows
    THEN [status |-> 200, msg |-> "0 rows", rows |-> rows]
  ELSE LET new == [rows[uid] EXCEPT ![column] = value]
       IN  IF ~RlsUpdateCheck(rows, uid, new)
             THEN [status |-> 403, msg |-> "row-level security",
                   rows |-> rows]
           ELSE [status |-> 200, msg |-> "1 row",
                 rows |-> [rows EXCEPT ![uid] = new]]

\* sign-up: the trigger on auth.users inserts the profile
SignUpResult(rows, email) ==
  IF ByEmail(rows, email) # {}
    THEN [status |-> 400, msg |-> "User already registered", rows |-> rows]
    ELSE [status |-> 200, msg |-> "signed up",
          rows |-> Create(rows, email, "user")]

\* a request on the accounts table and its effect
AccountStep(request, rows) ==
  /\ users' = rows
  /\ last' = request
  /\ pre' = users
  /\ preVideos' = videos
  /\ replayed' = FALSE
  /\ UNCHANGED <<videos, nextVideoId, stack, inflight, applied>>

Register ==
  /\ Idle
  /\ stack = "prisma"
  /\ FreeIds(users) # {}
  /\ \E email \in Emails \cup {NoEmail} : \E password, dbFault \in BOOLEAN :
       LET r == RegisterResult(users, email, password, dbFault)
       IN  \E development \in IF r.status = 500 THEN BOOLEAN ELSE {FALSE} :
           \E detail \in IF development THEN Details ELSE {NoDetail} :
             AccountStep([kind |-> "register", session |-> NULL,
                          email |-> email, status |-> r.status,
                          msg |-> r.msg, development |-> development,
                          detail |-> detail,
                          error |-> RegisterError(r.status, development,
                                                  detail)],
                         r.rows)

SeedDb ==
  /\ Idle
  /\ stack = "prisma"
  /\ Cardinality(SeedMissing(users)) <= Cardinality(FreeIds(users))
  /\ \E failedAt \in 0..2 :
     \E detail \in IF failedAt = 0 THEN {NoDetail} ELSE Details :
       LET r == SeedResult(users, failedAt)
       IN  AccountStep([kind |-> "seed", session |-> NULL,
                        failedAt |-> failedAt, status |-> r.status,
                        msg |-> r.msg, detail |-> detail,
                        error |-> SeedError(failedAt, detail)],
                       r.rows)

CheckUser ==
  /\ Idle
  /\ stack = "prisma"
  /\ \E email \in Emails \cup {NoEmail} : \E dbFault \in BOOLEAN :
       LET r == CheckUserResult(users, email, dbFault)
       IN  AccountStep([kind |-> "checkUser", session |-> NULL,
                        email |-> email, status |-> r.status, msg |-> r.msg,
                        exists |-> r.exists],
                       users)

SubscriptionRead ==
  /\ Idle
  /\ stack = "prisma"
  /\ \E session \in Sessions : \E dbFault \in BOOLEAN :
       LET r == SubscriptionReadResult(users, session, dbFault)
       IN  AccountStep([kind |-> "subscriptionGET", session |-> session,
                        status |-> r.status, msg |-> r.msg, body |-> r.body],
                       users)

AdminList ==
  /\ Idle
  /\ stack = "prisma"
  /\ \E session \in Sessions : \E claimedRole \in {"USER", "ADMIN"} :
       LET r == AdminListResult(users, session, claimedRole)
       IN  AccountStep([kind |-> "adminList", session |-> session,
                        claimedRole |-> claimedRole, status |-> r.status,
                        msg |-> r.msg, rows |-> r.rows],
                       users)

\* the provider's deliveries reach the prisma webhook
AccountDelivery == stack = "prisma" /\ Delivery

SignUp ==
  /\ Idle
  /\ stack = "supabase"
  /\ FreeIds(users) # {}
  /\ \E email \in Emails :
       LET r == SignUpResult(users, email)
       IN  AccountStep([kind |-> "signUp", session |-> NULL,
                        email |-> email, status |-> r.status, msg |-> r.msg],
                       r.rows)

\* the operator sets a role in the Table Editor
GrantAdmin ==
  /\ Idle
  /\ stack = "supabase"
  /\ \E u \in DOMAIN users :
       /\ users[u].role # "admin"
       /\ AccountStep([kind |-> "grantAdmin", session |-> NULL,
                       target |-> u, status |-> 200, msg |-> "role set"],
                      [users EXCEPT ![u].role = "admin"])

ProfileSelect ==
  /\ Idle
  /\ stack = "supabase"
  /\ \E uid \in Sessions : \E rejected \in BOOLEAN :
       LET r == ProfileSelectResult(users, uid, rejected)
       IN  AccountStep([kind |-> "profileSelect", session |-> uid,
                        rejected |-> rejected, status |-> r.status,
                        msg |-> r.msg, rows |-> r.rows],
                       users)

ProfileUpdate ==
  /\ Idle
  /\ stack = "supabase"
  /\ \E uid \in Sessions : \E target \in UserIds : \E column \in Columns :
       \E value \in ValuesOf(column) : \E rejected \in BOOLEAN :
         LET r == ProfileUpdateResult(users, uid, target, column, value,
                                      rejected)
         IN  AccountStep([kind |-> "profileUpdate", session |-> uid,
                          target |-> target, column |-> column,
                          rejected |-> rejected, status |-> r.status,
                          msg |-> r.msg],
                         r.rows)

\* no account yet, in either variant
InitAccounts ==
  /\ stack \in Stacks
  /\ users = <<>>
  /\ videos = {}
  /\ nextVideoId = 1
  /\ last = NoRequest
  /\ pre = users
  /\ preVideos = {}
  /\ replayed = FALSE
  /\ inflight = NoneInflight
  /\ applied = NoApplied

NextAccounts ==
  \/ Register
  \/ SeedDb
  \/ CheckUser
  \/ SubscriptionRead
  \/ AdminList
  \/ AccountDelivery
  \/ SignUp
  \/ GrantAdmin
  \/ ProfileSelect
  \/ ProfileUpdate
  \/ Respond

SpecAccounts == InitAccounts /\ [][NextAccounts]_vars

\* from sign-up to the first video: accounts are created, the provider's
\* events arrive, and the account holders use the video endpoints
\* the events of a provider that opens one subscription per customer
GenuineEvents ==
  {e \in Events :
     (e.type = "checkout.session.completed" /\ e.subscription # NULL)
       => e.subscription = SubOf(e.userId)}

OnboardingDelivery ==
  /\ Idle
  /\ stack = "prisma"
  /\ \E body \in GenuineEvents :
       WebhookPOST(body, Sign(body, webhookSecret), FALSE)
  /\ UNCHANGED applied

FirstPost == PostVideoOf(Urls, {FALSE})

FirstList == GetVideosOf({FALSE})

NextOnboarding ==
  \/ Register
  \/ SignUp
  \/ OnboardingDelivery
  \/ FirstPost
  \/ FirstList
  \/ Respond

SpecOnboarding == InitAccounts /\ [][NextOnboarding]_vars

----------------------------------------------------------------------------
(* Requests in flight.  A handler runs from one await on the data store to   *)
(* the next in one step; between two steps of a request the steps of other   *)
(* requests may take place.  A step that ends a request records its response *)
(* in last and frees the slot; status 0 marks a request still in flight.     *)

\* the request occupies the lowest free slot
FreeSlot(p) ==
  /\ inflight[p] = NoRequest
  /\ \A q \in Procs : q < p => inflight[q] # NoRequest

InFlight(kind) == {q \in Procs : inflight[q].kind = kind}

\* one step of the request in slot p: its effect on the tables, the request
\* that remains in flight (NoRequest when it ends) and the record of the step
Step(p, rows, vids, remains, record) ==
  /\ users' = rows
  /\ videos' = vids
  /\ nextVideoId' = nextVideoId + Cardinality(vids \ videos)
  /\ inflight' = [inflight EXCEPT ![p] = remains]
  /\ last' = record
  /\ pre' = users
  /\ preVideos' = videos
  /\ replayed' = FALSE
  /\ UNCHANGED <<stack, applied>>

\* variant: the table accepts a second row with the same email
CreateUnique_NoConstraint(rows, email, role) ==
  [threw |-> FALSE, rows |-> Create(rows, email, role)]

\* prisma.user.create on a table whose email column is UNIQUE: the
\* statement fails when a row already has the email
CreateUnique(rows, email, role) ==
  IF ByEmail(rows, email) # {}
    THEN [threw |-> TRUE, rows |-> rows]
    ELSE [threw |-> FALSE, rows |-> Create(rows, email, role)]

\* the email of the concurrent registrations: the one the seed creates too
RaceEmails == {"user@example.com"}

\* register, up to and including findUnique (part_002:31-50)
RegisterCheck(p) ==
  /\ Idle
  /\ FreeSlot(p)
  /\ \E email \in RaceEmails :
       IF ByEmail(users, email) # {}
         THEN Step(p, users, videos, NoRequest,
                   [kind |-> "register", phase |-> "check", email |-> email,
                    status |-> 400,
                    msg |-> "User already exists with this email"])
         ELSE Step(p, users, videos,
                   [kind |-> "register", email |-> email],
                   [kind |-> "register", phase |-> "check", email |-> email,
                    status |-> 0, msg |-> ""])

\* register, prisma.user.create and the response (part_002:52-79)
RegisterCreate(p) ==
  /\ Idle
  /\ inflight[p].kind = "register"
  /\ FreeIds(users) # {}
  /\ LET email == inflight[p].email
         r == CreateUnique(users, email, "USER")
     IN  Step(p, r.rows, videos, NoRequest,
              [kind |-> "register", phase |-> "create", email |-> email,
               status |-> IF r.threw THEN 500 ELSE 200,
               msg |-> IF r.threw THEN "Internal server error"
                                  ELSE "User created successfully"])

\* seed, the first upsert (seed-db/route.ts:14-22)
SeedFirst(p) ==
  /\ Idle
  /\ FreeSlot(p)
  /\ InFlight("seed") = {}
  /\ Step(p, Upsert(users, "admin@example.com", "ADMIN"), videos,
          [kind |-> "seed"],
          [kind |-> "seed", phase |-> "admin", status |-> 0, msg |-> ""])

\* seed, the second upsert and the response (seed-db/route.ts:26-44)
SeedSecond(p) ==
  /\ Idle
  /\ inflight[p].kind = "seed"
  /\ Step(p, Upsert(users, "user@example.com", "USER"), videos, NoRequest,
          [kind |-> "seed", phase |-> "user", status |-> 200,
           msg |-> "Database seeded successfully"])

\* video POST, up to the duplicate lookup: session, subscription status
\* and URL format (videos/route.ts:51-79)
PostCheck(p) ==
  /\ Idle
  /\ FreeSlot(p)
  /\ nextVideoId + Cardinality(InFlight("videoPOST")) <= MaxVideos
  /\ \E session \in DOMAIN users \cup {NULL} : \E url \in Urls :
       LET r == VideoPostResult(users, {}, 0, session, url, FALSE)
       IN  IF r.status # 200
             THEN Step(p, users, videos, NoRequest,
                       [kind |-> "videoPOST", phase |-> "check",
                        session |-> session, url |-> url,
                        status |-> r.status, msg |-> r.msg])
             ELSE Step(p, users, videos,
                       [kind |-> "videoPOST", session |-> session,
                        url |-> url, pc |-> 0],
                       [kind |-> "videoPOST", phase |-> "check",
                        session |-> session, url |-> url,
                        status |-> 0, msg |-> ""])

\* video POST, prisma.video.findFirst (videos/route.ts:82-91)
PostLookup(p) ==
  /\ Idle
  /\ inflight[p].kind = "videoPOST"
  /\ inflight[p].pc = 0
  /\ LET session == inflight[p].session
         url == inflight[p].url
     IN  IF \E v \in videos : v.youtubeUrl = url /\ v.userId = session
           THEN Step(p, users, videos, NoRequest,
                     [kind |-> "videoPOST", phase |-> "lookup",
                      session |-> session, url |-> url,
                      status |-> 400, msg |-> "Video already exists"])
           ELSE Step(p, users, videos, [inflight[p] EXCEPT !.pc = 1],
                     [kind |-> "videoPOST", phase |-> "lookup",
                      session |-> session, url |-> url,
                      status |-> 0, msg |-> ""])

\* video POST, prisma.video.create and the response (videos/route.ts:93-97)
PostCreate(p) ==
  /\ Idle
  /\ inflight[p].kind = "videoPOST"
  /\ inflight[p].pc = 1
  /\ LET session == inflight[p].session
         url == inflight[p].url
     IN  Step(p, users,
              videos \cup {[id |-> nextVideoId, userId |-> session,
                            youtubeUrl |-> url]},
              NoRequest,
              [kind |-> "videoPOST", phase |-> "create",
               session |-> session, url |-> url,
               status |-> 200, msg |-> "video"])

\* variant: the provider ids and the status are written by two statements
CheckoutStatements_Split ==
  <<{"stripeCustomerId", "stripeSubscriptionId"}, {"subscriptionStatus"}>>

\* the columns each statement of the checkout case writes: one
\* prisma.user.update with all three (webhooks/stripe/route.ts:42-49)
CheckoutStatements ==
  <<{"stripeCustomerId", "stripeSubscriptionId", "subscriptionStatus"}>>

\* the statements the handler issues for an event
StatementsOf(event) ==
  IF ~IssuesWrite(event) THEN <<>>
  ELSE IF event.type = "checkout.session.completed" THEN CheckoutStatements
  ELSE <<{"subscriptionStatus"}>>

\* one statement: the columns of part take the values the event's write
\* gives them
ApplyPart(rows, event, part) ==
  LET full == HandleEvent(rows, event, FALSE)
  IN  IF full.threw
        THEN full
        ELSE [threw |-> FALSE,
              rows |-> [u \in DOMAIN rows |->
                          [c \in DOMAIN rows[u] |->
                             IF c \in part THEN full.rows[u][c]
                                           ELSE rows[u][c]]]]

\* the events of the concurrent deliveries: those about the checkouts of
\* the accounts in the table
RaceEvents ==
  {e \in GenuineEvents :
     /\ e.type \in {"checkout.session.completed",
                    "customer.subscription.deleted",
                    "invoice.payment_succeeded"}
     /\ \E u \in DOMAIN users :
          e.userId = u \/ (e.userId = NULL /\ e.subscription = SubOf(u))}

\* webhook, up to the switch: the signature is verified
\* (webhooks/stripe/route.ts:13-35)
WebhookVerify(p) ==
  /\ Idle
  /\ FreeSlot(p)
  /\ \E body \in RaceEvents :
       IF StatementsOf(body) = <<>>
         THEN Step(p, users, videos, NoRequest,
                   [kind |-> "webhook", phase |-> "verify", body |-> body,
                    header |-> Sign(body, webhookSecret),
                    status |-> 200, msg |-> "received"])
         ELSE Step(p, users, videos,
                   [kind |-> "webhook", body |-> body, pc |-> 0],
                   [kind |-> "webhook", phase |-> "verify", body |-> body,
                    header |-> Sign(body, webhookSecret),
                    status |-> 0, msg |-> ""])

\* webhook, the next statement of the case and, after the last one, the
\* response (webhooks/stripe/route.ts:37-128)
WebhookWrite(p) ==
  /\ Idle
  /\ inflight[p].kind = "webhook"
  /\ LET body == inflight[p].body
         k == inflight[p].pc + 1
         r == ApplyPart(users, body, StatementsOf(body)[k])
         done == r.threw \/ k = Len(StatementsOf(body))
     IN  Step(p, r.rows, videos,
              IF done THEN NoRequest ELSE [inflight[p] EXCEPT !.pc = k],
              [kind |-> "webhook", phase |-> "write", body |-> body,
               header |-> Sign(body, webhookSecret),
               status |-> IF r.threw THEN 500 ELSE IF done THEN 200 ELSE 0,
               msg |-> IF r.threw THEN "Webhook processing failed"
                       ELSE IF done THEN "received" ELSE ""])

InitConcurrent ==
  /\ stack = "prisma"
  /\ users = <<>>
  /\ videos = {}
  /\ nextVideoId = 1
  /\ last = NoRequest
  /\ pre = users
  /\ preVideos = {}
  /\ replayed = FALSE
  /\ inflight = NoneInflight
  /\ applied = NoApplied

NextConcurrent ==
  \/ \E p \in Procs : RegisterCheck(p)
  \/ \E p \in Procs : RegisterCreate(p)
  \/ \E p \in Procs : SeedFirst(p)
  \/ \E p \in Procs : SeedSecond(p)
  \/ \E p \in Procs : PostCheck(p)
  \/ \E p \in Procs : PostLookup(p)
  \/ \E p \in Procs : PostCreate(p)
  \/ \E p \in Procs : WebhookVerify(p)
  \/ \E p \in Procs : WebhookWrite(p)
  \/ Respond

SpecConcurrent == InitConcurrent /\ [][NextConcurrent]_vars

----------------------------------------------------------------------------
(* Late retries: the provider delivers an event again after other events *)

\* the accounts the write of an event addresses
Addressed(rows, event) ==
  IF ~IssuesWrite(event) THEN {}
  ELSE IF event.type = "checkout.session.completed"
    THEN {event.userId} \cap DOMAIN rows
  ELSE {u \in DOMAIN rows : rows[u].stripeSubscriptionId = event.subscription}

\* a delivery the provider will repeat later: the event is remembered once
\* it has been acknowledged
FirstDelivery ==
  /\ Idle
  /\ applied.phase = "none"
  /\ \E body \in GenuineEvents :
       /\ WebhookPOST(body, Sign(body, webhookSecret), FALSE)
       /\ applied' =
            IF WebhookResult(users, body, Sign(body, webhookSecret),
                             FALSE).status = 200
              THEN [body |-> body, phase |-> "remembered",
                    matched |-> Addressed(users, body) # {}]
              ELSE applied

\* the remembered event is delivered again
RetryLater ==
  /\ Idle
  /\ applied.phase = "remembered"
  /\ WebhookPOST(applied.body, Sign(applied.body, webhookSecret), FALSE)
  /\ applied' = [applied EXCEPT !.phase = "retried"]

NextRetry == FirstDelivery \/ OnboardingDelivery \/ RetryLater \/ Respond

SpecRetry == Init /\ [][NextRetry]_vars

----------------------------------------------------------------------------
(* Properties of the webhook reconciler *)

\* the last request was a webhook POST
IsWebhook == last.kind = "webhook"

\* the last request was a webhook POST carrying the provider's signature of
\* its own body
Verified == IsWebhook /\ last.header = Sign(last.body, webhookSecret)

\* the accounts a subscription or invoice event addresses
Matching(rows, subscriptionId) ==
  {u \in DOMAIN rows : rows[u].stripeSubscriptionId = subscriptionId}

\* C1: a webhook POST whose stripe-signature header is absent, or is not the
\* provider's signature of the body under the endpoint secret, is answered
\* with 400 and leaves every user row as it was.
C1_UnverifiedRejected ==
  (IsWebhook /\ ~Verified) => (last.status = 400 /\ users = pre)

\* a forged checkout event for an existing inactive account was refused
C1_Witness ==
  /\ IsWebhook
  /\ last.header = Sign(last.body, ForgedKey)
  /\ last.body.type = "checkout.session.completed"
  /\ last.body.userId \in UserIds
  /\ last.body.subscription # NULL
  /\ pre[last.body.userId].subscriptionStatus = "inactive"
  /\ last.status = 400

\* C2 as stated: after any verified, acknowledged checkout-completed event
\* the account named in the metadata is active and holds the event's
\* customer and subscription.
C2_Original ==
  (/\ Verified
   /\ last.status = 200
   /\ last.body.type = "checkout.session.completed"
   /\ last.body.userId \in DOMAIN users)
  => (/\ users[last.body.userId].subscriptionStatus = "active"
      /\ users[last.body.userId].stripeCustomerId = last.body.customer
      /\ users[last.body.userId].stripeSubscriptionId = last.body.subscription)

\* C2 amended: after a verified, acknowledged checkout-completed event that
\* carries both a metadata user id and a subscription id, the account named
\* in the metadata exists, is active and holds the event's customer and
\* subscription, and its other columns are as before.
C2_CheckoutActivates ==
  (/\ Verified
   /\ last.status = 200
   /\ last.body.type = "checkout.session.completed"
   /\ last.body.userId # NULL
   /\ last.body.subscription # NULL)
  => (/\ last.body.userId \in DOMAIN users
      /\ users[last.body.userId] =
           [pre[last.body.userId] EXCEPT
              !.subscriptionStatus = "active",
              !.stripeCustomerId = last.body.customer,
              !.stripeSubscriptionId = last.body.subscription])

\* a checkout event activated an account that was not active and re-pointed
\* it to another subscription
C2_Witness ==
  /\ Verified
  /\ last.status = 200
  /\ last.body.type = "checkout.session.completed"
  /\ last.body.userId \in UserIds
  /\ last.body.subscription # NULL
  /\ pre[last.body.userId].subscriptionStatus = "past_due"
  /\ pre[last.body.userId].stripeSubscriptionId # last.body.subscription
  /\ users[last.body.userId].subscriptionStatus = "active"

\* C3: handling a recognized verified event a second time in succession
\* changes nothing: the second handling leaves the ledger of the first, and
\* in every reachable ledger applying any event twice equals applying it once.
C3_Idempotent ==
  /\ replayed => users = pre
  /\ Idle => \A e \in Events :
               LET once == HandleEvent(users, e, FALSE)
               IN  ~once.threw => HandleEvent(once.rows, e, FALSE) = once

\* a payment-failed event was delivered twice to an account it matches
C3_Witness ==
  /\ replayed
  /\ last.body.type = "invoice.payment_failed"
  /\ \E u \in UserIds :
       /\ users[u].stripeSubscriptionId = last.body.subscription
       /\ users[u].subscriptionStatus = "past_due"

\* C4 as stated: once the signature is verified (and the store is up) the
\* handler answers 200, whatever the event and the ledger.
C4_AlwaysAcknowledged ==
  (Verified /\ ~last.dbFault) => last.status = 200

\* C5: when the write issued for a verified event fails, the answer is 500
\* and the ledger is as before the event.
C5_WriteFailure ==
  (/\ Verified
   /\ IssuesWrite(last.body)
   /\ \/ last.dbFault
      \/ /\ last.body.type = "checkout.session.completed"
         /\ last.body.userId \notin DOMAIN pre)
  => (last.status = 500 /\ users = pre)

\* the store failed while a payment-failed event addressed an active account
C5_Witness ==
  /\ Verified
  /\ last.dbFault
  /\ last.body.type = "invoice.payment_failed"
  /\ \E u \in Matching(pre, last.body.subscription) :
       pre[u].subscriptionStatus = "active"
  /\ last.status = 500

\* C6: after a verified, acknowledged subscription created/updated event for
\* subscription S, every account holding S is active when the provider
\* reports "active" and inactive for every other reported status.
C6_SubscriptionChanged ==
  (/\ Verified
   /\ last.status = 200
   /\ last.body.type \in {"customer.subscription.created",
                          "customer.subscription.updated"})
  => \A u \in Matching(users, last.body.subscription) :
       users[u].subscriptionStatus =
         IF last.body.status = "active" THEN "active" ELSE "inactive"

\* the provider reported past_due for the subscription of an active account
C6_Witness ==
  /\ Verified
  /\ last.status = 200
  /\ last.body.type = "customer.subscription.updated"
  /\ last.body.status = "past_due"
  /\ \E u \in Matching(users, last.body.subscription) :
       /\ pre[u].subscriptionStatus = "active"
       /\ users[u].subscriptionStatus = "inactive"

\* C7: after a verified, acknowledged subscription deleted event for
\* subscription S, every account holding S is inactive.
C7_SubscriptionDeleted ==
  (/\ Verified
   /\ last.status = 200
   /\ last.body.type = "customer.subscription.deleted")
  => \A u \in Matching(users, last.body.subscription) :
       users[u].subscriptionStatus = "inactive"

\* a past_due account lost its subscription
C7_Witness ==
  /\ Verified
  /\ last.status = 200
  /\ last.body.type = "customer.subscription.deleted"
  /\ \E u \in Matching(users, last.body.subscription) :
       /\ pre[u].subscriptionStatus = "past_due"
       /\ users[u].subscriptionStatus = "inactive"

\* C8: after a verified, acknowledged invoice payment succeeded event, every
\* account holding the invoice's subscription is active.
C8_PaymentSucceeded ==
  (/\ Verified
   /\ last.status = 200
   /\ last.body.type = "invoice.payment_succeeded"
   /\ last.body.subscription # NULL)
  => \A u \in Matching(users, last.body.subscription) :
       users[u].subscriptionStatus = "active"

\* a past_due account paid
C8_Witness ==
  /\ Verified
  /\ last.status = 200
  /\ last.body.type = "invoice.payment_succeeded"
  /\ \E u \in Matching(users, last.body.subscription) :
       /\ pre[u].subscriptionStatus = "past_due"
       /\ users[u].subscriptionStatus = "active"

\* C10: a verified event of a type the switch has no case for leaves every
\* user row as it was and is answered with 200.
C10_UnrecognizedNoOp ==
  (Verified /\ last.body.type \notin RecognizedTypes)
  => (last.status = 200 /\ users = pre /\ last.msg = "received")

\* an unrecognized event arrived while an account was active, store down
C10_Witness ==
  /\ Verified
  /\ last.body.type \notin RecognizedTypes
  /\ last.dbFault
  /\ \E u \in UserIds : users[u].subscriptionStatus = "active"
  /\ last.status = 200

----------------------------------------------------------------------------
(* Properties that join the reconciler and the video registry *)

IsVideoPost == last.kind = "videoPOST"

\* event types whose case may write the status active
ActivatingTypes ==
  {"checkout.session.completed", "customer.subscription.created",
   "customer.subscription.updated", "invoice.payment_succeeded"}

\* C9: after a verified, acknowledged invoice payment failed event every
\* account holding the invoice's subscription is past_due; a video insertion
\* by an account that is not active is answered 403 and writes no row; and an
\* account that is not active becomes active only by a verified activating
\* event.
C9_PaymentFailedBlocks ==
  /\ (/\ Verified
      /\ last.status = 200
      /\ last.body.type = "invoice.payment_failed"
      /\ last.body.subscription # NULL)
     => \A u \in Matching(users, last.body.subscription) :
          users[u].subscriptionStatus = "past_due"
  /\ (/\ IsVideoPost
      /\ last.session \in DOMAIN pre
      /\ pre[last.session].subscriptionStatus # "active"
      /\ ~last.dbFault)
     => (last.status = 403 /\ videos = preVideos)
  /\ \A u \in DOMAIN users :
       (pre[u].subscriptionStatus # "active"
          /\ users[u].subscriptionStatus = "active")
       => (Verified /\ last.body.type \in ActivatingTypes)

\* an account that had inserted a video and then failed a payment was refused
\* a further, valid and new, URL
C9_Witness ==
  /\ IsVideoPost
  /\ last.session \in UserIds
  /\ users[last.session].subscriptionStatus = "past_due"
  /\ validateYouTubeUrl(last.url)
  /\ \E v \in videos : v.userId = last.session
  /\ last.status = 403

----------------------------------------------------------------------------
(* Properties of the video endpoints, in either variant *)

IsVideoGet == last.kind = "videoGET"

IsVideoDelete == last.kind = "videoDELETE"

\* the account of a session exists and is active
AccountActive(rows, session) ==
  session \in DOMAIN rows /\ rows[session].subscriptionStatus = "active"

\* URLs of the request alphabet that are outside the YouTube allow-list
OffAllowList == {UrlVimeo, UrlFtp, UrlNoPath}

\* C11: a video insertion by an authenticated account that is not active
\* (inactive, past_due or without a row) is answered 403 and creates no row,
\* in the prisma and in the Supabase handler, whatever the URL.
C11_InactiveInsertDenied ==
  (/\ IsVideoPost
   /\ last.session # NULL
   /\ ~AccountActive(pre, last.session)
   /\ ~last.dbFault)
  => (last.status = 403 /\ videos = preVideos)

\* a past_due account was refused a valid URL nobody has added (Supabase)
C11_Witness ==
  /\ IsVideoPost
  /\ stack = "supabase"
  /\ last.session \in UserIds
  /\ pre[last.session].subscriptionStatus = "past_due"
  /\ last.url = UrlWatch
  /\ \A v \in preVideos : v.youtubeUrl # UrlWatch
  /\ last.status = 403

\* C12 as stated: a URL outside the allow-list is answered 400 whatever the
\* subscription status of the authenticated account, and creates no row.
C12_Original ==
  (/\ IsVideoPost
   /\ last.session # NULL
   /\ last.url \in OffAllowList
   /\ ~last.dbFault)
  => (last.status = 400 /\ videos = preVideos)

\* C12 amended: a URL outside the allow-list never creates a row; the answer
\* is 400 when the authenticated account is active and 403 when it is not.
C12_InvalidUrlRejected ==
  (/\ IsVideoPost
   /\ last.session # NULL
   /\ last.url \in OffAllowList
   /\ ~last.dbFault)
  => (/\ videos = preVideos
      /\ last.status =
           IF AccountActive(pre, last.session) THEN 400 ELSE 403)

\* an active account was refused an ftp:// URL on youtube.com
C12_Witness ==
  /\ IsVideoPost
  /\ last.session \in UserIds
  /\ pre[last.session].subscriptionStatus = "active"
  /\ last.url = UrlFtp
  /\ last.status = 400
  /\ last.msg = "Invalid YouTube URL"

\* C13 as stated: once a URL is in the table, a further insertion of it by
\* an active account (the same or another) is answered 409 and creates no
\* row.
C13_DuplicateConflict ==
  (/\ IsVideoPost
   /\ AccountActive(pre, last.session)
   /\ ~last.dbFault
   /\ \E v \in preVideos : v.youtubeUrl = last.url)
  => (last.status = 409 /\ videos = preVideos)

\* C14 as stated: no two video rows have the same url.
C14_UrlUnique ==
  \A v, w \in videos : v.youtubeUrl = w.youtubeUrl => v = w

\* C15 as stated: a row leaves the table only through a DELETE by its owner,
\* and a DELETE naming a row that is absent or owned by another account is
\* answered 404 and changes no row.
C15_DeleteOwnerOnly ==
  /\ \A v \in preVideos \ videos :
       IsVideoDelete /\ v.userId = last.session /\ v.id = last.videoId
  /\ (/\ IsVideoDelete
      /\ last.session # NULL
      /\ last.videoId # 0
      /\ ~last.dbFault
      /\ ~\E v \in preVideos : v.id = last.videoId /\ v.userId = last.session)
     => (last.status = 404 /\ videos = preVideos)

\* C16 as stated: GET answers 401 without a session, 403 for an account that
\* is not active, and otherwise exactly the requester's rows.
C16_ListOwnActiveOnly ==
  IsVideoGet =>
    /\ last.session = NULL => last.status = 401
    /\ (last.session # NULL /\ ~AccountActive(pre, last.session)
          /\ ~last.dbFault) => last.status = 403
    /\ last.status = 200 => last.rows = OwnVideos(videos, last.session)

----------------------------------------------------------------------------
(* Properties of the accounts table *)

\* the session belongs to an account whose role is admin
IsAdmin(rows, session) ==
  session \in DOMAIN rows /\ rows[session].role = AdminRole

\* the ledger fields of a row
Ledger(row) ==
  <<row.subscriptionStatus, row.stripeCustomerId, row.stripeSubscriptionId>>

Unlinked(row) == row.stripeCustomerId = NULL /\ row.stripeSubscriptionId = NULL

C18_OnlyVerifiedEvents ==
  \A u \in DOMAIN users \cap DOMAIN pre :
    Ledger(users[u]) # Ledger(pre[u]) => Verified

\* C19: registration and sign-up create accounts with the user role, and the
\* role of an existing account changes in no request of a signed-in account
\* nor in a run of the seed; only the operator's out-of-band grant changes it.
C19_RoleFrozen ==
  /\ \A u \in DOMAIN users \cap DOMAIN pre :
       users[u].role # pre[u].role => last.kind = "grantAdmin"
  /\ last.kind \in {"register", "signUp"} =>
       \A u \in DOMAIN users \ DOMAIN pre : users[u].role = UserRole

\* an account holder tried to set its own role to admin and was refused
C19_Witness ==
  /\ last.kind = "profileUpdate"
  /\ ~last.rejected
  /\ last.session \in DOMAIN pre
  /\ last.target = last.session
  /\ last.column = "role"
  /\ pre[last.session].role = "user"
  /\ last.status = 403
  /\ users[last.session].role = "user"

\* C20 as stated: every status is inactive, active or past_due, and an
\* account gets a provider customer id or subscription id only when a
\* verified checkout-completed event naming it is applied.
C20_LedgerShape ==
  \A u \in DOMAIN users :
    /\ users[u].subscriptionStatus \in LedgerStatuses
    /\ (~Unlinked(users[u]) /\ (u \in DOMAIN pre => Unlinked(pre[u])))
       => (/\ Verified
           /\ last.body.type = "checkout.session.completed"
           /\ last.body.userId = u)

----------------------------------------------------------------------------
(* Properties of onboarding *)

\* the row is as sign-up leaves it: user role, inactive, no provider id
AsCreated(row) ==
  /\ row.role = UserRole
  /\ row.subscriptionStatus = "inactive"
  /\ Unlinked(row)

\* C21 as stated: registration and sign-up create rows with the user role,
\* status inactive and no provider id, and an account whose row is still as
\* created is refused (403) by the video insertion and by the video listing.
C21_NewAccountLocked ==
  /\ last.kind \in {"register", "signUp"} =>
       \A u \in DOMAIN users \ DOMAIN pre : AsCreated(users[u])
  /\ (/\ last.kind \in {"videoPOST", "videoGET"}
      /\ last.session \in DOMAIN pre
      /\ AsCreated(pre[last.session]))
     => (last.status = 403 /\ videos = preVideos)

\* URLs of the request alphabet that are on the YouTube allow-list
OnAllowList == {UrlWatch, UrlBare, UrlNewline}

\* the answer the ordered checks prescribe: the status of the earliest
\* failing check, or 0 when all four checks pass
FirstFailingCheck(rows, vids, session, url) ==
  IF session = NULL THEN 401
  ELSE IF ~AccountActive(rows, session) THEN 403
  ELSE IF url \notin OnAllowList THEN 400
  ELSE IF \E v \in vids : v.youtubeUrl = url THEN 409
  ELSE 0

\* C22 as stated: a video POST reports the earliest failing check in the
\* order authentication, active subscription, URL format, uniqueness, and
\* writes a row exactly when all four checks pass.
C22_CheckOrder ==
  (IsVideoPost /\ ~last.dbFault) =>
    LET first ==
          FirstFailingCheck(pre, preVideos, last.session, last.url)
    IN  IF first = 0
          THEN /\ Created(last.status)
               /\ \E v \in videos \ preVideos :
                    /\ v.userId = last.session
                    /\ v.youtubeUrl = last.url
                    /\ videos = preVideos \cup {v}
          ELSE last.status = first /\ videos = preVideos

----------------------------------------------------------------------------
(* Properties of requests in flight *)

\* the last step was a statement of a checkout-completed event
CheckoutWrote ==
  /\ last.kind = "webhook"
  /\ last.phase = "write"
  /\ last.body.type = "checkout.session.completed"

\* C23: in every state between two steps of any requests, an account has
\* both provider ids or neither, and a step that changes a provider id of an
\* account is the statement of a checkout-completed event naming the account
\* and leaves the row with status active and both ids of the event.
C23_AtomicCheckout ==
  /\ \A u \in DOMAIN users :
       users[u].stripeCustomerId = NULL <=> users[u].stripeSubscriptionId = NULL
  /\ \A u \in DOMAIN users \cap DOMAIN pre :
       (\/ users[u].stripeSubscriptionId # pre[u].stripeSubscriptionId
        \/ users[u].stripeCustomerId # pre[u].stripeCustomerId)
       => /\ CheckoutWrote
          /\ last.body.userId = u
          /\ users[u] =
               [pre[u] EXCEPT !.subscriptionStatus = "active",
                              !.stripeCustomerId = last.body.customer,
                              !.stripeSubscriptionId = last.body.subscription]

\* a checkout event linked and activated an unlinked account while another
\* request was between two of its steps
C23_Witness ==
  /\ CheckoutWrote
  /\ last.status = 200
  /\ last.body.userId \in DOMAIN pre
  /\ Unlinked(pre[last.body.userId])
  /\ users[last.body.userId].subscriptionStatus = "active"
  /\ users[last.body.userId].stripeSubscriptionId = last.body.subscription
  /\ \E q \in Procs : inflight[q].kind \in {"videoPOST", "webhook"}

\* C24 as stated: a video row is written only while the status of its owner
\* is active.
C24_InsertOnlyWhenActive ==
  \A v \in videos \ preVideos : AccountActive(users, v.userId)

\* C30: no two accounts share an email, whatever the interleaving of
\* registrations and seed runs; a registration for an email that exists when
\* it is looked up is answered 400, one that loses the race for a new email
\* fails at the create, and neither changes a row.
C30_EmailUnique ==
  /\ \A u, w \in DOMAIN users : users[u].email = users[w].email => u = w
  /\ (last.kind = "register" /\ ByEmail(pre, last.email) # {})
     => /\ users = pre
        /\ last.phase = "check" => last.status = 400
        /\ last.phase = "create" => last.status = 500

\* two registrations for the same new email passed the lookup; the table
\* holds the one row of the first, and the second failed at its create
C30_Witness ==
  /\ last.kind = "register"
  /\ last.phase = "create"
  /\ last.status = 500
  /\ Cardinality(DOMAIN users) = 1
  /\ Cardinality(ByEmail(users, last.email)) = 1

----------------------------------------------------------------------------
(* Properties of event sequences *)

\* C25 as stated: a verified event that was applied earlier and is delivered
\* again after other events leaves the ledger as it is.
C25_LateRetrySafe ==
  (/\ Verified
   /\ last.status = 200
   /\ applied.phase = "retried"
   /\ last.body = applied.body)
  => users = pre

\* the status the write of a recognized event sets
StatusWritten(event) ==
  CASE event.type = "checkout.session.completed" -> "active"
    [] event.type \in {"customer.subscription.created",
                       "customer.subscription.updated"} ->
         IF event.status = "active" THEN "active" ELSE "inactive"
    [] event.type = "customer.subscription.deleted" -> "inactive"
    [] event.type = "invoice.payment_succeeded" -> "active"
    [] event.type = "invoice.payment_failed" -> "past_due"

\* C27: a webhook request changes no row but those its event addresses (the
\* account of the metadata for checkout completed, the accounts recorded
\* with the subscription id otherwise); of an addressed row only the status
\* changes, and for checkout completed the provider ids; no row is added or
\* removed, no role, no email and no video row changes.
C27_WebhookFrame ==
  IsWebhook =>
    /\ DOMAIN users = DOMAIN pre
    /\ videos = preVideos
    /\ \A u \in DOMAIN pre :
         /\ users[u].role = pre[u].role
         /\ users[u].email = pre[u].email
         /\ (~Verified \/ u \notin Addressed(pre, last.body))
              => users[u] = pre[u]
         /\ last.body.type # "checkout.session.completed"
              => (/\ users[u].stripeCustomerId = pre[u].stripeCustomerId
                  /\ users[u].stripeSubscriptionId =
                       pre[u].stripeSubscriptionId)

\* a subscription event changed the status of the one account recorded with
\* its id while a second account and a video row existed
C27_Witness ==
  /\ Verified
  /\ last.body.type = "customer.subscription.updated"
  /\ \E u \in DOMAIN pre :
       /\ Addressed(pre, last.body) = {u}
       /\ users[u].subscriptionStatus # pre[u].subscriptionStatus
       /\ DOMAIN pre \ {u} # {}
  /\ videos # {}

\* C28: after a verified, acknowledged, recognized event the status of every
\* account the event addresses is the one the event sets, whatever the
\* status was before, and the status of every other account is the one its
\* own last addressing event left.
C28_LastWriterWins ==
  (Verified /\ last.status = 200 /\ last.body.type \in RecognizedTypes) =>
    \A u \in DOMAIN pre :
      users[u].subscriptionStatus =
        IF u \in Addressed(pre, last.body)
          THEN StatusWritten(last.body)
          ELSE pre[u].subscriptionStatus

\* a checkout event activated an account that an earlier event had left
\* past_due
C28_Witness ==
  /\ Verified
  /\ last.status = 200
  /\ last.body.type = "checkout.session.completed"
  /\ last.body.userId \in Addressed(pre, last.body)
  /\ pre[last.body.userId].subscriptionStatus = "past_due"
  /\ pre[last.body.userId].stripeSubscriptionId # NULL
  /\ users[last.body.userId].subscriptionStatus = "active"

\* C29: a verified recognized event that addresses no account (unknown
\* subscription id, invoice without subscription, checkout without metadata
\* user id or without subscription) is acknowledged with 200 and changes no
\* row; when a later checkout records the subscription id of such an early
\* event, the account gets the status of the checkout, not the early one.
C29_UnmatchedNoOp ==
  /\ (/\ Verified
      /\ ~last.dbFault
      /\ last.body.type \in RecognizedTypes
      /\ last.body.userId \in DOMAIN pre \cup {NULL}
      /\ Addressed(pre, last.body) = {})
     => (last.status = 200 /\ users = pre)
  /\ (/\ Verified
      /\ last.status = 200
      /\ last.body.type = "checkout.session.completed"
      /\ last.body.userId \in Addressed(pre, last.body)
      /\ applied.phase = "remembered"
      /\ ~applied.matched
      /\ applied.body.subscription = last.body.subscription)
     => users[last.body.userId].subscriptionStatus = "active"

\* a subscription event for an id no account had was acknowledged and
\* changed nothing; the checkout that recorded the id later made the account
\* active although the early event carried a status that maps to inactive
C29_Witness ==
  /\ Verified
  /\ last.status = 200
  /\ last.body.type = "checkout.session.completed"
  /\ last.body.userId \in Addressed(pre, last.body)
  /\ applied.phase = "remembered"
  /\ ~applied.matched
  /\ applied.body.type = "customer.subscription.created"
  /\ applied.body.status = "past_due"
  /\ applied.body.subscription = last.body.subscription
  /\ Unlinked(pre[last.body.userId])
  /\ users[last.body.userId].subscriptionStatus = "active"

\* C26: the body of a failed seed or register response is the same whatever
\* the message of the exception that made it fail: replacing the message by
\* any other gives the same error field.
C26_GenericErrors ==
  /\ (last.kind = "seed" /\ last.status >= 400) =>
       \A d \in Details : SeedError(last.failedAt, d) = last.error
  /\ (last.kind = "register" /\ last.status >= 400 /\ last.development) =>
       \A d \in Details :
         RegisterError(last.status, last.development, d) = last.error

====
